---------------------------- MODULE Spec2Model ----------------------------
(***************************************************************************)
(* VoidDB: a fixed-schema row store held in lazily allocated 4096-byte     *)
(* pages (src/src/compiler.rs).  The module models                         *)
(*   - the row codec: Row::new, Row::serialize, Row::deserialize,          *)
(*   - the page store: Table::new, Table::row_slot,                        *)
(*   - the executor: execute_statement, execute_insert, execute_select.    *)
(* Bytes are integers 0..255, a &str is the sequence of its UTF-8 bytes,   *)
(* a byte array or Vec<u8> is a sequence (index i of the code is i+1).     *)
(***************************************************************************)
EXTENDS Integers, Sequences, FiniteSets, TLC

-----------------------------------------------------------------------------
(* Program constants, compiler.rs:24-25 and 79-83.                         *)

COLUMN_USERNAME_SIZE == 32
COLUMN_EMAIL_SIZE == 255
PAGE_SIZE == 4096
(* Variant: one page too many.                                             *)
TABLE_MAX_PAGES_OneMore == 100 + 1
TABLE_MAX_PAGES == 100
ROW_SIZE == 291
(* Variant of ROWS_PER_PAGE: the quotient is rounded up.                    *)
ROWS_PER_PAGE_RoundedUp == (PAGE_SIZE + ROW_SIZE - 1) \div ROW_SIZE
ROWS_PER_PAGE == PAGE_SIZE \div ROW_SIZE
TABLE_MAX_ROWS == ROWS_PER_PAGE * TABLE_MAX_PAGES

(* A u32 (Row.id) is held as two 16-bit halves, [lo, hi], standing for     *)
(* hi * 2^16 + lo: the integers of TLC are 32-bit signed and cannot          *)
(* hold the upper half of the u32 range.                                   *)
U16 == 65536
U32Of(hi, lo) == [lo |-> lo, hi |-> hi]

(* Option<T>.                                                              *)
None == [is_some |-> FALSE, val |-> <<>>]
Some(x) == [is_some |-> TRUE, val |-> x]

(* [0u8; n] and vec![0; n].                                                *)
Zeros(n) == [i \in 1..n |-> 0]

-----------------------------------------------------------------------------
(* Row codec.                                                              *)

(* str::is_char_boundary: index 0 and len are boundaries, an index past    *)
(* the end is not, and inside the text a byte is a boundary unless it is   *)
(* a UTF-8 continuation byte (0x80..0xBF).                                 *)
IsCharBoundary(s, i) ==
    \/ i = 0
    \/ i = Len(s)
    \/ i < Len(s) /\ ~(s[i + 1] \in 128..191)

(* The copy loop of Row::new: the first n bytes of s over a zeroed array   *)
(* of `size` bytes.                                                        *)
FillArray(s, n, size) == SubSeq(s, 1, n) \o Zeros(size - n)

(* Row::new(id, username, email).  The slices username[0..usernamelen]     *)
(* and email[0..emaillen] are str slices: they panic when the end index    *)
(* is not a char boundary.  panic = TRUE stands for that abort; row is     *)
(* then meaningless.                                                       *)
Row_new(id, username, email) ==
    LET usernamelen == IF Len(username) > COLUMN_USERNAME_SIZE
                       THEN COLUMN_USERNAME_SIZE ELSE Len(username)
        emaillen == IF Len(email) > COLUMN_EMAIL_SIZE
                    THEN COLUMN_EMAIL_SIZE ELSE Len(email)
    IN  IF ~IsCharBoundary(username, usernamelen)
           \/ ~IsCharBoundary(email, emaillen)
        THEN [panic |-> TRUE, row |-> <<>>]
        ELSE [panic |-> FALSE,
              row |-> [id |-> id,
                       username |-> FillArray(username, usernamelen,
                                              COLUMN_USERNAME_SIZE),
                       email |-> FillArray(email, emaillen,
                                           COLUMN_EMAIL_SIZE)]]

(* u32::to_le_bytes and u32::from_le_bytes.                                *)
ToLeBytes(n) ==
    << n.lo % 256, (n.lo \div 256) % 256, n.hi % 256, (n.hi \div 256) % 256 >>

FromLeBytes(b) == U32Of(b[3] + 256 * b[4], b[1] + 256 * b[2])

(* Variant of serialize: the id is written with to_be_bytes.               *)
Serialize_BigEndian(row) ==
    << (row.id.hi \div 256) % 256, row.id.hi % 256,
       (row.id.lo \div 256) % 256, row.id.lo % 256 >>
        \o row.username \o row.email

(* Row::serialize: id, username, email appended to an empty Vec.           *)
Serialize(row) == ToLeBytes(row.id) \o row.username \o row.email

(* Variant of deserialize: the email is read from data[35..290].           *)
Deserialize_Shifted(data) ==
    [id |-> FromLeBytes(SubSeq(data, 1, 4)),
     username |-> SubSeq(data, 5, 36),
     email |-> SubSeq(data, 36, 290)]

(* Row::deserialize(data): data[0..4], data[4..36], data[36..291].         *)
Deserialize(data) ==
    [id |-> FromLeBytes(SubSeq(data, 1, 4)),
     username |-> SubSeq(data, 5, 36),
     email |-> SubSeq(data, 37, 291)]

-----------------------------------------------------------------------------
(* Page store.                                                             *)

PageNums == 0..(TABLE_MAX_PAGES - 1)

(* Table::new: no rows, every page None.                                   *)
Table_new == [num_rows |-> 0, pages |-> [p \in PageNums |-> None]]

(* Variant of row_slot: the offset counts rows, not bytes (the factor      *)
(* ROW_SIZE is missing).                                                   *)
RowSlot_Unscaled(pages, row_num) ==
    LET page_num == row_num \div ROWS_PER_PAGE
        page_offset == row_num % ROWS_PER_PAGE
    IN  IF page_num >= TABLE_MAX_PAGES
        THEN [panic |-> TRUE, pages |-> pages,
              page_num |-> page_num, page_offset |-> page_offset]
        ELSE LET alloc == IF ~pages[page_num].is_some
                          THEN [pages EXCEPT ![page_num] = Some(Zeros(PAGE_SIZE))]
                          ELSE pages
             IN  [panic |-> page_offset + ROW_SIZE > Len(alloc[page_num].val),
                  pages |-> alloc,
                  page_num |-> page_num, page_offset |-> page_offset]

(* Table::row_slot(row_num): the page and offset of the slot, and the page *)
(* array after the lazy allocation.  panic = TRUE stands for the abort of  *)
(* the unchecked index self.pages[page_num] or of the unwrap of get_mut.   *)
RowSlot(pages, row_num) ==
    LET page_num == row_num \div ROWS_PER_PAGE
        page_offset == (row_num % ROWS_PER_PAGE) * ROW_SIZE
    IN  IF page_num >= TABLE_MAX_PAGES
        THEN [panic |-> TRUE, pages |-> pages,
              page_num |-> page_num, page_offset |-> page_offset]
        ELSE LET alloc == IF ~pages[page_num].is_some
                          THEN [pages EXCEPT ![page_num] = Some(Zeros(PAGE_SIZE))]
                          ELSE pages
             IN  [panic |-> page_offset + ROW_SIZE > Len(alloc[page_num].val),
                  pages |-> alloc,
                  page_num |-> page_num, page_offset |-> page_offset]

(* The bytes of the slice row_slot returns.                                *)
SlotBytes(pages, page_num, page_offset) ==
    SubSeq(pages[page_num].val, page_offset + 1, page_offset + ROW_SIZE)

(* slot.copy_from_slice(src) on the slot at page_offset of page data: the  *)
(* page's bytes before the slot, src in place of the slot, the bytes after *)
(* it (the length check of copy_from_slice is made by the caller).         *)
CopyIntoSlot(data, page_offset, src) ==
    SubSeq(data, 1, page_offset) \o src
        \o SubSeq(data, page_offset + ROW_SIZE + 1, Len(data))


-----------------------------------------------------------------------------
(* Executor.  Each operator returns the ExecuteResult, the table after the *)
(* call, the rows printed, whether the call aborted (panic), and the row   *)
(* numbers it passed to row_slot (calls).                                  *)

(* Variant of execute_insert: the capacity test compares with the number   *)
(* of pages instead of the number of rows.                                 *)
ExecuteInsert_PageLimit(statement, table) ==
    IF table.num_rows >= TABLE_MAX_PAGES
    THEN [result |-> "TableFull", table |-> table, out |-> <<>>,
          panic |-> FALSE, calls |-> {}]
    ELSE IF statement.row_to_insert.is_some
    THEN LET slot == RowSlot(table.pages, table.num_rows)
             src == Serialize(statement.row_to_insert.val)
         IN  IF slot.panic \/ Len(src) # ROW_SIZE
             THEN [result |-> "none",
                   table |-> [table EXCEPT !.pages = slot.pages],
                   out |-> <<>>, panic |-> TRUE,
                   calls |-> {table.num_rows}]
             ELSE [result |-> "Success",
                   table |->
                     [num_rows |-> table.num_rows + 1,
                      pages |-> [slot.pages EXCEPT ![slot.page_num] =
                                   Some(CopyIntoSlot(@.val, slot.page_offset,
                                                     src))]],
                   out |-> <<>>, panic |-> FALSE,
                   calls |-> {table.num_rows}]
    ELSE [result |-> "TableFull", table |-> table, out |-> <<>>,
          panic |-> FALSE, calls |-> {}]

(* Variant of execute_insert: the row is written and num_rows is left as   *)
(* it was.                                                                 *)
ExecuteInsert_NoCount(statement, table) ==
    IF table.num_rows >= TABLE_MAX_ROWS
    THEN [result |-> "TableFull", table |-> table, out |-> <<>>,
          panic |-> FALSE, calls |-> {}]
    ELSE IF statement.row_to_insert.is_some
    THEN LET slot == RowSlot(table.pages, table.num_rows)
             src == Serialize(statement.row_to_insert.val)
         IN  IF slot.panic \/ Len(src) # ROW_SIZE
             THEN [result |-> "none",
                   table |-> [table EXCEPT !.pages = slot.pages],
                   out |-> <<>>, panic |-> TRUE,
                   calls |-> {table.num_rows}]
             ELSE [result |-> "Success",
                   table |->
                     [num_rows |-> table.num_rows,
                      pages |-> [slot.pages EXCEPT ![slot.page_num] =
                                   Some(CopyIntoSlot(@.val, slot.page_offset,
                                                     src))]],
                   out |-> <<>>, panic |-> FALSE,
                   calls |-> {table.num_rows}]
    ELSE [result |-> "TableFull", table |-> table, out |-> <<>>,
          panic |-> FALSE, calls |-> {}]

(* execute_insert(statement, table).                                       *)
ExecuteInsert(statement, table) ==
    IF table.num_rows >= TABLE_MAX_ROWS
    THEN [result |-> "TableFull", table |-> table, out |-> <<>>,
          panic |-> FALSE, calls |-> {}]
    ELSE IF statement.row_to_insert.is_some
    THEN LET slot == RowSlot(table.pages, table.num_rows)
             src == Serialize(statement.row_to_insert.val)
         IN  IF slot.panic \/ Len(src) # ROW_SIZE
             THEN [result |-> "none",
                   table |-> [table EXCEPT !.pages = slot.pages],
                   out |-> <<>>, panic |-> TRUE,
                   calls |-> {table.num_rows}]
             ELSE [result |-> "Success",
                   table |->
                     [num_rows |-> table.num_rows + 1,
                      pages |-> [slot.pages EXCEPT ![slot.page_num] =
                                   Some(CopyIntoSlot(@.val, slot.page_offset,
                                                     src))]],
                   out |-> <<>>, panic |-> FALSE,
                   calls |-> {table.num_rows}]
    ELSE [result |-> "TableFull", table |-> table, out |-> <<>>,
          panic |-> FALSE, calls |-> {}]

(* Variant of the iteration of execute_select: the slot is cleared once    *)
(* its row is printed.                                                     *)
SelectStep_Take(acc, i) ==
         LET slot == RowSlot(acc.pages, i)
         IN  IF slot.panic
             THEN [acc EXCEPT !.pages = slot.pages, !.panic = TRUE,
                              !.calls = @ \cup {i}]
             ELSE [pages |-> [slot.pages EXCEPT ![slot.page_num] =
                                Some(CopyIntoSlot(@.val, slot.page_offset,
                                                  Zeros(ROW_SIZE)))],
                   out |-> Append(acc.out,
                              Deserialize(SlotBytes(slot.pages, slot.page_num,
                                                    slot.page_offset))),
                   panic |-> FALSE,
                   calls |-> acc.calls \cup {i}]

(* One iteration of the loop of execute_select: row_slot(i), deserialize,  *)
(* print.  acc holds the pages so far, the rows printed so far, whether a  *)
(* row_slot has aborted, and the row numbers passed to row_slot so far.    *)
SelectStep(acc, i) ==
         LET slot == RowSlot(acc.pages, i)
         IN  IF slot.panic
             THEN [acc EXCEPT !.pages = slot.pages, !.panic = TRUE,
                              !.calls = @ \cup {i}]
             ELSE [pages |-> slot.pages,
                   out |-> Append(acc.out,
                              Deserialize(SlotBytes(slot.pages, slot.page_num,
                                                    slot.page_offset))),
                   panic |-> FALSE,
                   calls |-> acc.calls \cup {i}]

(* The iterations i, i+1, .., n-1 in that order, stopping at an abort.     *)
(* The range is split in two halves run one after the other, which keeps   *)
(* the nesting of the evaluation logarithmic in the number of rows.        *)
RECURSIVE SelectLoop(_, _, _)
SelectLoop(acc, i, n) ==
    IF i >= n THEN acc
    ELSE IF n = i + 1 THEN SelectStep(acc, i)
    ELSE LET mid == (i + n) \div 2
             first == SelectLoop(acc, i, mid)
         IN  IF first.panic THEN first ELSE SelectLoop(first, mid, n)

(* Variant of execute_select: the loop runs over 0..=num_rows.             *)
ExecuteSelect_Inclusive(statement, table) ==
    LET scan == SelectLoop([pages |-> table.pages, out |-> <<>>,
                            panic |-> FALSE, calls |-> {}],
                           0, table.num_rows + 1)
    IN  [result |-> IF scan.panic THEN "none" ELSE "Success",
         table |-> [table EXCEPT !.pages = scan.pages],
         out |-> scan.out, panic |-> scan.panic, calls |-> scan.calls]

(* execute_select(_statement, table).                                      *)
ExecuteSelect(statement, table) ==
    LET scan == SelectLoop([pages |-> table.pages, out |-> <<>>,
                            panic |-> FALSE, calls |-> {}],
                           0, table.num_rows)
    IN  [result |-> IF scan.panic THEN "none" ELSE "Success",
         table |-> [table EXCEPT !.pages = scan.pages],
         out |-> scan.out, panic |-> scan.panic, calls |-> scan.calls]

(* execute_statement(statement, table).                                    *)
ExecuteStatement(statement, table) ==
    IF statement.typ = "Insert" THEN ExecuteInsert(statement, table)
    ELSE ExecuteSelect(statement, table)

-----------------------------------------------------------------------------
(* Input and parser: InputBuffer::read_input, do_meta_command,             *)
(* prepare_statement.  The buffer is the sequence of the line's bytes.     *)

(* "insert", "select" and ".exit" as bytes.                                *)
KwInsert == <<105, 110, 115, 101, 114, 116>>
KwSelect == <<115, 101, 108, 101, 99, 116>>
KwExit == <<46, 101, 120, 105, 116>>

(* char::is_whitespace on the ASCII range: tab, LF, VT, FF, CR and space   *)
(* (the inputs of the model hold no whitespace outside ASCII).             *)
IsWhitespace(b) == b \in 9..13 \/ b = 32

(* str::trim, as read_input applies it to the line read.                   *)
Trim(s) ==
    LET keep == {i \in 1..Len(s) : ~IsWhitespace(s[i])}
    IN  IF keep = {} THEN <<>>
        ELSE SubSeq(s, CHOOSE i \in keep : \A j \in keep : i <= j,
                       CHOOSE i \in keep : \A j \in keep : j <= i)

(* str::starts_with.                                                       *)
StartsWith(s, prefix) ==
    Len(s) >= Len(prefix) /\ SubSeq(s, 1, Len(prefix)) = prefix

(* str::split_whitespace, collected: the maximal runs of bytes that are    *)
(* not whitespace, in order.                                               *)
SplitWhitespace(s) ==
    LET starts == {i \in 1..Len(s) :
                      ~IsWhitespace(s[i]) /\ (i = 1 \/ IsWhitespace(s[i - 1]))}
        nth(k) == CHOOSE i \in starts :
                      Cardinality({j \in starts : j < i}) = k - 1
        last(i) == CHOOSE e \in i..Len(s) :
                      /\ \A j \in i..e : ~IsWhitespace(s[j])
                      /\ (e = Len(s) \/ IsWhitespace(s[e + 1]))
    IN  [k \in 1..Cardinality(starts) |-> SubSeq(s, nth(k), last(nth(k)))]

(* The digit loop of u32::from_str from digit i on, the value so far being *)
(* hi * 2^16 + lo: None on a byte that is no decimal digit and on a value  *)
(* past u32::MAX.                                                          *)
RECURSIVE ParseDigits(_, _, _, _)
ParseDigits(d, i, hi, lo) ==
    IF i > Len(d) THEN Some(U32Of(hi, lo))
    ELSE IF ~(d[i] \in 48..57) THEN None
    ELSE LET x == lo * 10 + (d[i] - 48)
             hi2 == hi * 10 + (x \div U16)
         IN  IF hi2 >= U16 THEN None
             ELSE ParseDigits(d, i + 1, hi2, x % U16)

(* s.parse::<u32>().ok(): an empty text and a lone sign are errors, one    *)
(* leading "+" is skipped, a "-" is no digit of an unsigned type.          *)
ParseU32(tok) ==
    IF Len(tok) = 0 THEN None
    ELSE IF Len(tok) = 1 /\ tok[1] \in {43, 45} THEN None
    ELSE IF tok[1] = 43 THEN ParseDigits(Tail(tok), 1, 0, 0)
    ELSE ParseDigits(tok, 1, 0, 0)

(* An outcome of prepare_statement: Ok(statement), Err(err), or the abort  *)
(* of Row::new.  rec is the id, username and email the row was built from. *)
Prepared(ok, err, statement, rec, panic) ==
    [ok |-> ok, err |-> err, statement |-> statement, rec |-> rec,
     panic |-> panic]

SyntaxError == Prepared(FALSE, "SyntaxError", <<>>, <<>>, FALSE)

(* prepare_statement(input_buffer).  args.next() is taken in turn: the     *)
(* first word is skipped, the second parsed as the id, the third and       *)
(* fourth are the username and the email, a fifth is an error.             *)
PrepareStatement(buffer) ==
    IF StartsWith(buffer, KwInsert)
    THEN LET args == SplitWhitespace(buffer)
             id == IF Len(args) >= 2 THEN ParseU32(args[2]) ELSE None
         IN  IF ~id.is_some THEN SyntaxError
             ELSE IF Len(args) < 3 THEN SyntaxError
             ELSE IF Len(args) < 4 THEN SyntaxError
             ELSE IF Len(args) > 4 THEN SyntaxError
             ELSE LET made == Row_new(id.val, args[3], args[4])
                      rec == [id |-> id.val, username |-> args[3],
                              email |-> args[4]]
                  IN  IF made.panic
                      THEN Prepared(FALSE, "none", <<>>, rec, TRUE)
                      ELSE Prepared(TRUE, "none",
                                    [typ |-> "Insert",
                                     row_to_insert |-> Some(made.row)],
                                    rec, FALSE)
    ELSE IF buffer = KwSelect
    THEN Prepared(TRUE, "none", [typ |-> "Select", row_to_insert |-> None],
                  <<>>, FALSE)
    ELSE Prepared(FALSE, "UnrecognizedStatement", <<>>, <<>>, FALSE)

(* do_meta_command(input_buffer): ".exit" ends the process, any other      *)
(* buffer is an unrecognized command.                                      *)
DoMetaCommand(buffer) ==
    IF buffer = KwExit THEN "Exit" ELSE "UnrecognizedCommand"

-----------------------------------------------------------------------------
(* Input lines: a first word, then arguments, each preceded by a           *)
(* separator.                                                              *)

RECURSIVE Line(_, _, _)
Line(word, args, sep) ==
    IF args = <<>> THEN word
    ELSE Line(word \o sep \o Head(args), Tail(args), sep)

(* First words: "insert", "insertx", "select", "selectx", "update".        *)
Keywords ==
    { KwInsert, KwInsert \o <<120>>, KwSelect, KwSelect \o <<120>>,
      <<117, 112, 100, 97, 116, 101>> }

(* Id arguments that are decimal u32 values: "1", "0", "007",              *)
(* "4294967295" (u32::MAX).                                                *)
U32Texts ==
    { <<49>>, <<48>>, <<48, 48, 55>>,
      <<52, 50, 57, 52, 57, 54, 55, 50, 57, 53>> }

(* Id arguments that are not: "4294967296", "-1", "abc", "1x".             *)
NonU32Texts ==
    { <<52, 50, 57, 52, 57, 54, 55, 50, 57, 54>>, <<45, 49>>,
      <<97, 98, 99>>, <<49, 120>> }

(* Username and email arguments: "bob", "b@x.io".                          *)
NameTexts == { <<98, 111, 98>>, <<98, 64, 120, 46, 105, 111>> }

(* Separators: one space, two spaces, a tab.                               *)
Separators == { <<32>>, <<32, 32>>, <<9>> }

-----------------------------------------------------------------------------
(* The table under a session of statements.                                *)

VARIABLES
    num_rows,   \* Table.num_rows
    pages,      \* Table.pages
    stmt,       \* the statement the last step executed (None: it executed
                \* none)
    result,     \* the ExecuteResult it returned ("none": nothing returned)
    out,        \* the rows it printed
    calls,      \* the row numbers it passed to row_slot
    shown,      \* the rows printed by the latest select, None when an
                \* insert has been executed since (or no select yet)
    again,      \* the last step was a select and `shown` held rows before it
    outcome,    \* how the last step ended: "none" before the first,
                \* "Executed", "SyntaxError", "UnrecognizedStatement",
                \* "UnrecognizedCommand", or "Exit" (the process has exited)
    aborted,    \* the process has panicked
    history,    \* the records whose insert returned Success, in order
    c_pc,       \* codec run: "idle", "input", "built", "encoded", "decoded",
                \* or "aborted" (a panic)
    c_in,       \* codec run: the id, username and email given to Row::new
    c_row,      \* codec run: the Row that Row::new returned
    c_bytes,    \* codec run: the Vec<u8> that serialize returned
    c_back,     \* codec run: the Row that deserialize returned
    p_pc,       \* parser run: "idle", "input", "done", or "aborted"
    p_in,       \* parser run: the first word, arguments and separator of the
                \* line
    p_res       \* parser run: what prepare_statement returned

tvars == <<num_rows, pages, stmt, result, out, calls, shown, again, outcome,
           aborted, history>>
cvars == <<c_pc, c_in, c_row, c_bytes, c_back>>
pvars == <<p_pc, p_in, p_res>>
vars == <<tvars, cvars, pvars>>

(* Bounds of the session.  Statements of every shape are issued while the  *)
(* table holds at most HeadRows rows and again once it is within TailRows  *)
(* rows of its capacity; in between the session only loads rows.           *)
HeadRows == 30
TailRows == 1

Interactive ==
    num_rows <= HeadRows \/ num_rows >= TABLE_MAX_ROWS - TailRows

(* "abc": the UTF-8 bytes of an ASCII text, from its letters' codes.       *)
Ascii(n, first) == [i \in 1..n |-> first + ((i - 1) % 26)]

(* The record the load inserts as row n: ids scattered over the u32 range  *)
(* (not in numeric order), texts that differ from row to row.              *)
LoadRecord(n) ==
    LET name == << 97 + (n % 26), 97 + ((n \div 26) % 26),
                   97 + ((n \div 676) % 26) >>
    IN  [id |-> U32Of((n * 30011) % U16, (n * 40503) % U16),
         username |-> name,
         email |-> name \o << 64, 120 >>]

(* The records typed near capacity: ids 3 then 1 are out of numeric order, *)
(* and the second has a 40-byte username and a 260-byte email.             *)
Records ==
    { [id |-> U32Of(0, 3), username |-> Ascii(5, 99), email |-> Ascii(7, 65)],
      [id |-> U32Of(0, 1), username |-> Ascii(40, 97), email |-> Ascii(260, 48)] }

Candidates ==
    IF num_rows >= TABLE_MAX_ROWS - TailRows THEN Records
    ELSE {LoadRecord(num_rows)}

(* The table after Table::new, before any statement.                       *)
InitTable ==
    /\ num_rows = Table_new.num_rows
    /\ pages = Table_new.pages
    /\ stmt = None
    /\ result = "none"
    /\ out = <<>>
    /\ calls = {}
    /\ shown = None
    /\ again = FALSE
    /\ outcome = "none"
    /\ aborted = FALSE
    /\ history = <<>>

(* No codec run.                                                           *)
IdleCodec ==
    /\ c_pc = "idle"
    /\ c_in = <<>>
    /\ c_row = <<>>
    /\ c_bytes = <<>>
    /\ c_back = <<>>

(* No parser run.                                                          *)
IdleParser ==
    /\ p_pc = "idle"
    /\ p_in = <<>>
    /\ p_res = <<>>

Init == InitTable /\ IdleCodec /\ IdleParser

(* The process is running: it has neither panicked nor exited.             *)
Running == ~aborted /\ outcome # "Exit"

(* One call of execute_statement on the table; rec is the record the       *)
(* statement's row was built from (used when the insert succeeds).         *)
Execute(statement, rec) ==
    LET r == ExecuteStatement(statement,
                              [num_rows |-> num_rows, pages |-> pages])
    IN  /\ Running
        /\ num_rows' = r.table.num_rows
        /\ pages' = r.table.pages
        /\ stmt' = Some(statement)
        /\ result' = r.result
        /\ out' = r.out
        /\ calls' = r.calls
        /\ shown' = IF statement.typ # "Select" THEN None
                    ELSE IF r.panic THEN shown ELSE Some(r.out)
        /\ again' = (statement.typ = "Select" /\ shown.is_some)
        /\ outcome' = IF r.panic THEN outcome ELSE "Executed"
        /\ aborted' = r.panic
        /\ history' = IF statement.typ = "Insert" /\ r.result = "Success"
                      THEN Append(history, rec) ELSE history
        /\ UNCHANGED <<cvars, pvars>>

(* insert <id> <username> <email>: a statement carrying Row::new's row.    *)
InsertRow ==
    \E rec \in Candidates :
        LET made == Row_new(rec.id, rec.username, rec.email)
        IN  /\ ~made.panic
            /\ Execute([typ |-> "Insert", row_to_insert |-> Some(made.row)],
                       rec)

(* A Statement of type Insert built with row_to_insert: None.              *)
InsertNoRow ==
    /\ Interactive
    /\ Execute([typ |-> "Insert", row_to_insert |-> None], <<>>)

(* select.                                                                 *)
Select ==
    /\ Interactive
    /\ Execute([typ |-> "Select", row_to_insert |-> None], <<>>)

(* The lines typed in a session besides well-formed statements, as        *)
(* read_line returns them (ending in a line feed): the first words alone   *)
(* and with too few, too many or malformed arguments, the empty line, a    *)
(* line with leading and trailing spaces, and the meta-commands ".exit",   *)
(* ".tables" and ".exit now".                                              *)
SessionLines ==
    { Line(w, a, <<32>>) \o <<10>> :
        w \in Keywords,
        a \in { <<>>, << <<49>> >>, << <<49>>, <<98, 111, 98>> >>,
                << <<45, 49>>, <<98, 111, 98>>, <<98, 64, 120, 46, 105, 111>> >>,
                << <<49>>, <<98, 111, 98>>, <<98, 64, 120, 46, 105, 111>>,
                   <<98, 111, 98>> >> } }
    \cup { <<10>>, <<32, 32>> \o KwSelect \o <<120, 32, 10>>,
           KwExit \o <<10>>, <<32>> \o KwExit \o <<32, 10>>,
           <<46, 116, 97, 98, 108, 101, 115, 10>>,
           KwExit \o <<32, 110, 111, 119, 10>> }

(* One iteration of main's loop on a line that prepare_statement rejects:  *)
(* nothing is executed, the table is not touched.                          *)
RejectLine ==
    /\ Interactive
    /\ Running
    /\ \E raw \in SessionLines :
          LET buffer == Trim(raw)
              prepared == PrepareStatement(buffer)
          IN  /\ ~StartsWith(buffer, <<46>>)
              /\ ~prepared.ok /\ ~prepared.panic
              /\ outcome' = prepared.err
    /\ stmt' = None
    /\ result' = "none"
    /\ out' = <<>>
    /\ calls' = {}
    /\ again' = FALSE
    /\ UNCHANGED <<num_rows, pages, shown, aborted, history, cvars, pvars>>

(* One iteration of main's loop on a line that starts with ".": the        *)
(* meta-command exits the process or is reported as unrecognized.          *)
MetaCommand ==
    /\ Interactive
    /\ Running
    /\ \E raw \in SessionLines :
          LET buffer == Trim(raw)
          IN  /\ StartsWith(buffer, <<46>>)
              /\ outcome' = DoMetaCommand(buffer)
    /\ stmt' = None
    /\ result' = "none"
    /\ out' = <<>>
    /\ calls' = {}
    /\ again' = FALSE
    /\ UNCHANGED <<num_rows, pages, shown, aborted, history, cvars, pvars>>

Next == InsertRow \/ InsertNoRow \/ Select \/ RejectLine \/ MetaCommand

Spec == Init /\ [][Next]_vars

-----------------------------------------------------------------------------
(* The row codec on its own: Row::new, serialize and deserialize applied   *)
(* in turn to one input, the table staying as Table::new left it.          *)

(* Bounds of the codec inputs: how far a text's ASCII prefix runs past the *)
(* field size, and how many ASCII bytes follow the text's special          *)
(* character.                                                              *)
MaxOver == 1
MaxTail == 1

(* The characters placed at the end of the prefix: none, NUL, a 2-byte     *)
(* character (U+00E9) and a 3-byte character (U+20AC), as UTF-8.           *)
Chars == { <<>>, <<0>>, <<195, 169>>, <<226, 130, 172>> }

(* Texts for a field of `size` bytes: short, or as long as the             *)
(* field give or take a few bytes, with a character of Chars lying before, *)
(* on or after the field's end.                                            *)
Texts(size) ==
    { Ascii(k, 97) \o c \o Ascii(m, 65) :
        k \in {1, 3} \cup ((size - 2)..(size + MaxOver)),
        c \in Chars,
        m \in 0..MaxTail }

(* Ids over the u32 range: 0, 0x04030201, 2^31 and 2^32 - 1.               *)
Ids == { U32Of(0, 0), U32Of(1027, 513), U32Of(32768, 0), U32Of(65535, 65535) }

InitCodec ==
    /\ InitTable
    /\ IdleParser
    /\ c_pc = "input"
    /\ c_in \in [id : Ids,
                 username : Texts(COLUMN_USERNAME_SIZE),
                 email : Texts(COLUMN_EMAIL_SIZE)]
    /\ c_row = <<>>
    /\ c_bytes = <<>>
    /\ c_back = <<>>

(* Row::new(id, username, email).                                          *)
CodecNew ==
    /\ c_pc = "input"
    /\ LET made == Row_new(c_in.id, c_in.username, c_in.email)
       IN  /\ c_pc' = IF made.panic THEN "aborted" ELSE "built"
           /\ c_row' = made.row
    /\ UNCHANGED <<c_in, c_bytes, c_back, tvars, pvars>>

(* row.serialize().                                                        *)
CodecSerialize ==
    /\ c_pc = "built"
    /\ c_bytes' = Serialize(c_row)
    /\ c_pc' = "encoded"
    /\ UNCHANGED <<c_in, c_row, c_back, tvars, pvars>>

(* Row::deserialize(data): the slices data[0..4], data[4..36] and          *)
(* data[36..291] panic on a shorter slice.                                 *)
CodecDeserialize ==
    /\ c_pc = "encoded"
    /\ IF Len(c_bytes) < ROW_SIZE
       THEN c_pc' = "aborted" /\ c_back' = c_back
       ELSE c_pc' = "decoded" /\ c_back' = Deserialize(c_bytes)
    /\ UNCHANGED <<c_in, c_row, c_bytes, tvars, pvars>>

NextCodec == CodecNew \/ CodecSerialize \/ CodecDeserialize

SpecCodec == InitCodec /\ [][NextCodec]_vars

-----------------------------------------------------------------------------
(* The parser on its own: prepare_statement applied to one line, the table *)
(* staying as Table::new left it.                                          *)

(* Bound of the parser inputs: the number of arguments after the first     *)
(* word.                                                                   *)
MaxArgs == 4

(* A username or email of 33 bytes whose byte 32 lies inside a character   *)
(* (31 ASCII bytes, then U+00E9).                                          *)
SplitName == Ascii(31, 97) \o <<195, 169>>

(* Argument lists: an id argument, then usernames and emails.              *)
ArgLists ==
    { a \in UNION { [1..n -> U32Texts \cup NonU32Texts \cup NameTexts
                                \cup {SplitName}] : n \in 0..MaxArgs } :
        /\ Len(a) >= 1 => a[1] \in U32Texts \cup NonU32Texts
        /\ \A i \in 2..Len(a) : a[i] \in NameTexts \cup {SplitName} }

(* The buffer of a parser input.                                           *)
BufferOf(in) == Line(in.word, in.args, in.sep)

InitPrepare ==
    /\ InitTable
    /\ IdleCodec
    /\ p_pc = "input"
    /\ p_in \in [word : Keywords, args : ArgLists, sep : Separators]
    /\ p_res = <<>>

(* prepare_statement(&input_buffer).                                       *)
Prepare ==
    /\ p_pc = "input"
    /\ LET prepared == PrepareStatement(BufferOf(p_in))
       IN  /\ p_pc' = IF prepared.panic THEN "aborted" ELSE "done"
           /\ p_res' = prepared
    /\ UNCHANGED <<p_in, tvars, cvars>>

NextPrepare == Prepare

SpecPrepare == InitPrepare /\ [][NextPrepare]_vars

-----------------------------------------------------------------------------
(* Properties of the table under Spec.                                     *)

(* The statement executed last was of type typ.                            *)
LastWas(typ) == stmt.is_some /\ stmt.val.typ = typ

(* The statement executed last carried a row.                              *)
LastHadRow == stmt.is_some /\ stmt.val.row_to_insert.is_some

(* The bytes of the slot of row i, by the layout the specification states: *)
(* page i div 14, offset (i mod 14) * 291, 291 bytes.                      *)
SlotAt(pgs, i) ==
    SubSeq(pgs[i \div 14].val, (i % 14) * 291 + 1, (i % 14) * 291 + 291)

(* The bytes of page p, a page that is not allocated read as zeros.        *)
PageBytes(pgs, p) == IF pgs[p].is_some THEN pgs[p].val ELSE Zeros(4096)

(* A text as a field of `size` bytes: cut at size, padded with zeros.      *)
Field(text, size) ==
    [i \in 1..size |-> IF i <= Len(text) THEN text[i] ELSE 0]

(* C1: capacity boundary.  An insert of a record into a table of fewer     *)
(* than 1400 rows returns Success, so from the empty table the first 1400  *)
(* succeed; an insert attempted at num_rows = 1400 returns TableFull and   *)
(* leaves num_rows at 1400 and every page unchanged.                       *)
C1_CapacityBoundary ==
    [][ LastWas("Insert")' =>
          /\ (num_rows < 1400 /\ LastHadRow') =>
                (result' = "Success" /\ ~aborted' /\ Len(history') = num_rows + 1)
          /\ (num_rows = 1400) =>
                /\ result' = "TableFull"
                /\ ~aborted'
                /\ num_rows' = 1400
                /\ pages' = pages ]_vars

(* C1 witness: 1400 inserts succeeded and the 1401st, carrying a record,   *)
(* was refused.                                                            *)
C1_Witness ==
    /\ LastWas("Insert") /\ LastHadRow
    /\ result = "TableFull"
    /\ num_rows = 1400 /\ Len(history) = 1400

(* C2: insertion order.  A select yields exactly the records whose insert  *)
(* returned Success, in the order of insertion, each in its encoded form   *)
(* (id, 32-byte username field, 255-byte email field).                     *)
C2_InsertionOrder ==
    LastWas("Select") =>
        /\ ~aborted
        /\ Len(out) = Len(history)
        /\ \A i \in 1..Len(history) :
              /\ out[i].id = history[i].id
              /\ out[i].username = Field(history[i].username, 32)
              /\ out[i].email = Field(history[i].email, 255)

(* C2 witness: a select of four rows, the third of which has a larger id   *)
(* than the fourth.                                                        *)
C2_Witness ==
    /\ LastWas("Select")
    /\ Len(out) = 4 /\ Len(history) = 4
    /\ out[3].id.hi > out[4].id.hi

(* C3: TableFull is returned exactly at capacity.  An Insert statement     *)
(* executed at num_rows < 1400 returns Success and adds one row, whether   *)
(* or not it carries a row; at num_rows = 1400 it returns TableFull.       *)
C3_TableFullOnlyAtCapacity ==
    [][ LastWas("Insert")' =>
          IF num_rows < 1400
          THEN result' = "Success" /\ num_rows' = num_rows + 1
          ELSE result' = "TableFull" ]_vars

(* C4: select returns Success and changes neither num_rows nor any page    *)
(* (no page is allocated, no byte is written).                             *)
C4_SelectPure ==
    [][ LastWas("Select")' =>
          /\ result' = "Success"
          /\ ~aborted'
          /\ num_rows' = num_rows
          /\ pages' = pages ]_vars

(* C4 witness: a select of a table whose rows fill page 0 exactly, the     *)
(* next page not being allocated.                                          *)
C4_Witness ==
    /\ LastWas("Select")
    /\ result = "Success"
    /\ num_rows = 14 /\ Len(out) = 14
    /\ pages[0].is_some /\ ~pages[1].is_some

(* C5: a successful insert at num_rows = n changes only the 291 bytes of   *)
(* the slot of row n: every other page is unchanged, the bytes of the page *)
(* of row n outside that slot are unchanged (zero when the page was        *)
(* allocated by this insert), and the slot of every row i < n is as        *)
(* before.                                                                 *)
C5_InsertFrame ==
    [][ (LastWas("Insert")' /\ result' = "Success") =>
          LET n == num_rows
              p == n \div 14
              off == (n % 14) * 291
          IN  /\ \A q \in 0..99 : q # p => pages'[q] = pages[q]
              /\ pages'[p].is_some
              /\ SubSeq(pages'[p].val, 1, off)
                   = SubSeq(PageBytes(pages, p), 1, off)
              /\ SubSeq(pages'[p].val, off + 292, 4096)
                   = SubSeq(PageBytes(pages, p), off + 292, 4096)
              /\ \A i \in 0..(n - 1) : SlotAt(pages', i) = SlotAt(pages, i) ]_vars

(* C5 witness: a successful insert into a page that already held rows.     *)
C5_Witness ==
    /\ LastWas("Insert") /\ result = "Success"
    /\ num_rows = 17
    /\ SlotAt(pages, 16) = Serialize(stmt.val.row_to_insert.val)

(* C6: 0 <= num_rows <= 1400 (which is TABLE_MAX_PAGES * ROWS_PER_PAGE) in *)
(* every state reachable from Table::new by insert and select statements.  *)
C6_RowCountCeiling ==
    /\ num_rows >= 0
    /\ num_rows <= 1400

(* C6 witness: the full table, after a statement without a row was         *)
(* refused.                                                                *)
C6_Witness ==
    /\ num_rows = 1400
    /\ LastWas("Insert") /\ ~LastHadRow /\ result = "TableFull"

(* C7: slot addressing.  row_slot(r) addresses page r div 14 at offset     *)
(* (r mod 14) * 291, 291 bytes long, for every row r of the table, and the *)
(* slot of the newest row overlaps the slot of no earlier row (over the    *)
(* states of the load: no two distinct rows overlap).                      *)
C7_SlotAddressing ==
    /\ \A r \in 0..(num_rows - 1) :
          LET s == RowSlot(pages, r)
          IN  /\ ~s.panic
              /\ s.page_num = r \div 14
              /\ s.page_offset = (r % 14) * 291
              /\ Len(SlotBytes(s.pages, s.page_num, s.page_offset)) = 291
    /\ num_rows > 0 =>
          LET s1 == RowSlot(pages, num_rows - 1)
          IN  \A r2 \in 0..(num_rows - 2) :
                 LET s2 == RowSlot(pages, r2)
                 IN  \/ s1.page_num # s2.page_num
                     \/ s1.page_offset + ROW_SIZE <= s2.page_offset
                     \/ s2.page_offset + ROW_SIZE <= s1.page_offset

(* C7 witness: rows on three pages, the last slot of page 1 and the first  *)
(* slot of page 2 among them.                                              *)
C7_Witness ==
    /\ num_rows = 29
    /\ RowSlot(pages, 27).page_num = 1
    /\ RowSlot(pages, 27).page_offset = 3783
    /\ RowSlot(pages, 28).page_num = 2
    /\ RowSlot(pages, 28).page_offset = 0

-----------------------------------------------------------------------------
(* Properties of the codec under SpecCodec.                                *)

(* A field without its trailing zero bytes.                                *)
StripZeros(f) ==
    LET nz == {i \in 1..Len(f) : f[i] # 0}
    IN  IF nz = {} THEN <<>>
        ELSE SubSeq(f, 1, CHOOSE i \in nz : \A j \in nz : j <= i)

(* The text ends in a zero byte.                                           *)
EndsInZero(text) == Len(text) > 0 /\ text[Len(text)] = 0

(* The run's texts fit their fields.                                       *)
InputFits == Len(c_in.username) <= 32 /\ Len(c_in.email) <= 255

(* C8 as stated: for a username of at most 32 bytes and an email of at     *)
(* most 255, deserialize(serialize(record)) has the id and the two fields  *)
(* of the record, byte for byte, and stripping the trailing zeros of the   *)
(* fields gives back the username and the email.                           *)
C8_RoundTripAsStated ==
    (c_pc # "input" /\ InputFits) =>
        /\ c_pc # "aborted"
        /\ c_pc = "decoded" =>
              /\ c_back.id = c_in.id
              /\ c_back.username = Field(c_in.username, 32)
              /\ c_back.email = Field(c_in.email, 255)
              /\ c_back = c_row
              /\ StripZeros(c_back.username) = c_in.username
              /\ StripZeros(c_back.email) = c_in.email

(* C8 amended: the same, the stripped fields giving back each text that    *)
(* does not itself end in a zero byte.                                     *)
C8_RoundTrip ==
    (c_pc # "input" /\ InputFits) =>
        /\ c_pc # "aborted"
        /\ c_pc = "decoded" =>
              /\ c_back.id = c_in.id
              /\ c_back.username = Field(c_in.username, 32)
              /\ c_back.email = Field(c_in.email, 255)
              /\ c_back = c_row
              /\ ~EndsInZero(c_in.username) =>
                    StripZeros(c_back.username) = c_in.username
              /\ ~EndsInZero(c_in.email) =>
                    StripZeros(c_back.email) = c_in.email

(* C8 witness: a round trip of the largest id with texts that fill their   *)
(* fields to the last byte.                                                *)
C8_Witness ==
    /\ c_pc = "decoded"
    /\ c_in.id = U32Of(65535, 65535)
    /\ Len(c_in.username) = 32 /\ Len(c_in.email) = 255
    /\ StripZeros(c_back.username) = c_in.username

(* C9: a username longer than 32 bytes, or an email longer than 255, is    *)
(* cut without any abort: Row::new completes and the field holds the first *)
(* 32 (255) bytes of the text, whatever bytes lie at the cut.              *)
C9_TruncationNeverErrors ==
    (c_pc # "input" /\ ~InputFits) =>
        /\ c_pc # "aborted"
        /\ c_row.username = Field(c_in.username, 32)
        /\ c_row.email = Field(c_in.email, 255)

(* C10: serialize gives 291 bytes, bytes 0..3 the id in little-endian      *)
(* order, bytes 4..35 the username field, bytes 36..290 the email field,   *)
(* and that is the length of the slot row_slot returns.                    *)
C10_RowLayout ==
    c_pc \in {"encoded", "decoded"} =>
        /\ Len(c_bytes) = 291
        /\ \A i \in 1..4 : c_bytes[i] \in 0..255
        /\ c_bytes[1] + 256 * c_bytes[2] = c_row.id.lo
        /\ c_bytes[3] + 256 * c_bytes[4] = c_row.id.hi
        /\ SubSeq(c_bytes, 5, 36) = c_row.username
        /\ Len(c_row.username) = 32
        /\ SubSeq(c_bytes, 37, 291) = c_row.email
        /\ Len(c_row.email) = 255
        /\ LET slot == RowSlot(pages, num_rows)
           IN  Len(SlotBytes(slot.pages, slot.page_num, slot.page_offset))
                 = Len(c_bytes)

(* C10 witness: the id 0x04030201 encoded as the bytes 1, 2, 3, 4.         *)
C10_Witness ==
    /\ c_pc = "encoded"
    /\ c_row.id = U32Of(1027, 513)
    /\ SubSeq(c_bytes, 1, 4) = <<1, 2, 3, 4>>

(* C11: idempotent read.  Two selects with no insert executed between them *)
(* print identical record sequences: same length, same records, same       *)
(* order.                                                                  *)
C11_IdempotentRead ==
    [][ (LastWas("Select")' /\ again') =>
          /\ ~aborted'
          /\ Len(out') = Len(shown.val)
          /\ \A i \in 1..Len(out') : out'[i] = shown.val[i] ]_vars

(* C11 witness: a select of three rows right after a select of the same    *)
(* table.                                                                  *)
C11_Witness ==
    /\ LastWas("Select") /\ again
    /\ num_rows = 3 /\ Len(out) = 3
    /\ out[1].id # out[2].id

(* C12: num_rows never decreases.  A step adds exactly 1 when it is an     *)
(* insert returning Success and leaves num_rows unchanged otherwise (an    *)
(* insert returning TableFull, a select, a line that fails to parse, an    *)
(* unrecognized meta-command).                                             *)
C12_RowCountMonotonic ==
    [][ /\ num_rows' >= num_rows
        /\ IF LastWas("Insert")' /\ result' = "Success"
           THEN num_rows' = num_rows + 1
           ELSE num_rows' = num_rows ]_vars

(* C12 witness: rows have been inserted, the last step was a line that     *)
(* failed to parse, and the row count is that of the inserts.              *)
C12_Witness ==
    /\ outcome = "SyntaxError"
    /\ ~stmt.is_some
    /\ num_rows = 5 /\ Len(history) = 5

-----------------------------------------------------------------------------
(* Properties of the pages under Spec.                                     *)

(* C14: a row never spans two pages.  For every row index r in 0..1399 the *)
(* slot ends inside the page, (r mod 14) * 291 + 291 <= 4096, and indeed   *)
(* before the page's last 22 bytes; no slice lookup of row_slot has        *)
(* failed, the lookup succeeds for every row the last statement addressed, *)
(* and the bytes at offsets 4074..4095 of every allocated page are zero.   *)
C14_RowWithinPage ==
    /\ \A r \in 0..1399 :
          /\ (r % ROWS_PER_PAGE) * ROW_SIZE + ROW_SIZE <= 4096
          /\ (r % ROWS_PER_PAGE) * ROW_SIZE + ROW_SIZE <= 4074
    /\ ~aborted
    /\ \A r \in calls :
          LET s == RowSlot(pages, r)
          IN  ~s.panic /\ s.page_offset + 291 <= Len(pages[s.page_num].val)
    /\ \A p \in 0..99 :
          pages[p].is_some =>
              /\ Len(pages[p].val) = 4096
              /\ \A k \in 4075..4096 : pages[p].val[k] = 0

(* C14 witness: the insert that fills the last slot of page 0, the slot    *)
(* next to the page's last 22 bytes.                                       *)
C14_Witness ==
    /\ LastWas("Insert") /\ result = "Success"
    /\ num_rows = 14 /\ calls = {13}
    /\ SlotAt(pages, 13) # Zeros(291)
    /\ ~pages[1].is_some

(* Page p is allocated exactly when it holds the slot of a row, every      *)
(* allocated page is 4096 bytes long, and every slot past the last row is  *)
(* zero in an allocated page.                                              *)
LazilyAllocated ==
    /\ \A p \in 0..99 :
          /\ pages[p].is_some <=> p * 14 < num_rows
          /\ pages[p].is_some => Len(pages[p].val) = 4096
    /\ \A i \in num_rows..1399 :
          pages[i \div 14].is_some => SlotAt(pages, i) = Zeros(291)

(* A step keeps every allocated page allocated and at its length, and a    *)
(* page it allocates is zero outside the slot of the row the step wrote    *)
(* (the row at the old num_rows).                                          *)
PagesRetained ==
    \A p \in 0..99 :
        /\ pages[p].is_some =>
              pages'[p].is_some /\ Len(pages'[p].val) = Len(pages[p].val)
        /\ (~pages[p].is_some /\ pages'[p].is_some) =>
              LET off == (num_rows % 14) * 291
              IN  /\ p = num_rows \div 14
                  /\ SubSeq(pages'[p].val, 1, off) = Zeros(off)
                  /\ SubSeq(pages'[p].val, off + 292, 4096)
                       = Zeros(4096 - off - 291)

(* C15: lazy allocation.  In every state reachable from Table::new, page p *)
(* is allocated iff p < ceil(num_rows / 14); an allocated page is exactly  *)
(* 4096 bytes, was zero-filled when allocated, is never deallocated or     *)
(* replaced, and the bytes of every slot with index >= num_rows in an      *)
(* allocated page are zero.                                                *)
C15_LazyAllocation == []LazilyAllocated /\ [][PagesRetained]_vars

(* C15 witness: the insert of row 14 has allocated page 1, whose other     *)
(* slots are zero; page 2 is not allocated.                                *)
C15_Witness ==
    /\ LastWas("Insert") /\ result = "Success"
    /\ num_rows = 15
    /\ pages[0].is_some /\ pages[1].is_some /\ ~pages[2].is_some
    /\ SlotAt(pages, 14) # Zeros(291)
    /\ SlotAt(pages, 15) = Zeros(291)

(* C16: no out-of-range slot access.  Every call of row_slot has           *)
(* row_num <= 1399 and so a page index <= 99: an insert calls it only with *)
(* row_num = num_rows < 1400 (the row count before the insert), a select   *)
(* only with row_num < num_rows; the index into the page array is never    *)
(* out of bounds.                                                          *)
C16_SlotAccessInRange ==
    [][ /\ ~aborted'
        /\ \A r \in calls' :
              /\ r >= 0 /\ r <= 1399
              /\ r \div ROWS_PER_PAGE <= 99
              /\ r \div ROWS_PER_PAGE < TABLE_MAX_PAGES
        /\ LastWas("Insert")' =>
              (calls' \subseteq {num_rows} /\ (calls' # {} => num_rows < 1400))
        /\ LastWas("Select")' =>
              \A r \in calls' : r < num_rows' ]_vars

(* C16 witness: a select of the full table, calling row_slot for every row *)
(* up to 1399 on page 99.                                                  *)
C16_Witness ==
    /\ LastWas("Select") /\ result = "Success"
    /\ num_rows = 1400
    /\ calls = 0..1399
    /\ RowSlot(pages, 1399).page_num = 99

-----------------------------------------------------------------------------
(* Properties of the parser under SpecPrepare.                             *)

(* The line of the parser run is an insert line: its first word is         *)
(* "insert".                                                               *)
IsInsertLine == p_in.word = KwInsert

(* The parser run returned Ok with a statement of type typ.                *)
Returned(typ) == p_pc = "done" /\ p_res.ok /\ p_res.statement.typ = typ

(* The parser run returned Err(err).                                       *)
Refused(err) == p_pc = "done" /\ ~p_res.ok /\ p_res.err = err

(* C13: statement well-formedness.  Every call of prepare_statement        *)
(* returns; a Statement returned has a row iff its type is Insert; the     *)
(* line "select" gives a Select statement with no row; an insert line with *)
(* a u32 id and exactly three arguments gives an Insert statement with a   *)
(* row; an insert line with a missing argument, an extra argument or an id *)
(* that is no u32 gives SyntaxError; any other line gives                  *)
(* UnrecognizedStatement.                                                  *)
C13_StatementWellFormed ==
    p_pc # "input" =>
        /\ p_pc = "done"
        /\ p_res.ok =>
              (p_res.statement.row_to_insert.is_some
                 <=> p_res.statement.typ = "Insert")
        /\ IF BufferOf(p_in) = KwSelect
           THEN Returned("Select")
           ELSE IF IsInsertLine
           THEN IF Len(p_in.args) = 3 /\ p_in.args[1] \in U32Texts
                THEN Returned("Insert")
                ELSE Refused("SyntaxError")
           ELSE Refused("UnrecognizedStatement")

=============================================================================
